---- MODULE Spec2Model ----
(***************************************************************************)
(* State-machine model of the BusinessConnect -> Anypoint Partner Manager  *)
(* migration accelerator: the in-memory ledger (MemStorage), the           *)
(* XmlToJsonTransformer, the ApmLoader and the HTTP handlers of            *)
(* registerRoutes that extract, transform, update and migrate artifacts.   *)
(*                                                                         *)
(* A handler runs atomically between two network calls: the awaits on      *)
(* MemStorage resolve without I/O, so the only suspension points are the   *)
(* extractor run, the authentication fetch and the push fetch.             *)
(***************************************************************************)
EXTENDS Integers, Sequences, FiniteSets, TLC

VARIABLES
  artifacts,    \* MemStorage.artifacts: artifact id -> Artifact (ids are 1..Len)
  extractions,  \* MemStorage.extractions: extraction id -> Extraction
  migrations,   \* MemStorage.migrations: migration id -> Migration
  inflight,     \* migrate requests suspended on a network call, oldest first
  response      \* the HTTP response sent by the last step ("none" if it sent none)

vars == <<artifacts, extractions, migrations, inflight, response>>

----------------------------------------------------------------------------
(* Bounds of the model *)

\* extraction jobs ever started
MaxExtractions == 1
\* artifacts ever created
MaxArtifacts == 2
\* migration records ever appended
MaxMigrations == 2
\* migrate requests suspended on the network at the same time
MaxInFlight == 2

----------------------------------------------------------------------------
(* Values *)

\* null / undefined of a string-valued field
NULL == "null"
\* an absent (null / undefined) structured value, and a present one
None == <<>>
Some(x) == <<x>>

Statuses == {"new", "pending", "migrated", "error"}

\* values of new Date().toISOString() seen by two calls at different times
Times == {"t1", "t2"}

\* identifiers the target system assigns
RemoteIds == {"apm-1"}

----------------------------------------------------------------------------
(* Source documents.  A document is the xml2js object of one export file:  *)
(* root is its single root key ("" for an object without keys, "Unknown"   *)
(* for a key no transformation knows, as the keys of a REST partner), and  *)
(* every element is an array of values, <<>> when the element is missing.  *)
(* Element names are case sensitive.  Identifiers and Endpoints are the     *)
(* Identifier elements of root.Identifiers[0] and the Endpoint elements of  *)
(* root.Endpoints[0]; identifiers and endpoints are the Identifier          *)
(* elements of root.identifiers[0] and the EndpointRef elements of          *)
(* root.endpoints[0], the names the extractor's sample partner uses.        *)

Doc(root, id, Identifiers, Endpoints, identifiers, endpoints, channelId, partnerId) ==
  [root |-> root, id |-> id, Identifiers |-> Identifiers,
   Endpoints |-> Endpoints, identifiers |-> identifiers,
   endpoints |-> endpoints, channelId |-> channelId, partnerId |-> partnerId]

DocEndpoint1 == Doc("Endpoint", <<"ep1">>, <<>>, <<>>, <<>>, <<>>, <<>>, <<>>)
DocPartner1 ==
  Doc("Partner", <<"tp1">>,
      << [type |-> <<"DUNS">>, value |-> <<"123456789">>],
         [type |-> <<>>, value |-> <<"ACME">>] >>,
      << [id |-> <<"ep1">>, text |-> NULL], [id |-> <<"ep2">>, text |-> NULL] >>,
      <<>>, <<>>, <<>>, <<>>)
DocEndpoint2 == Doc("Endpoint", <<"ep2">>, <<>>, <<>>, <<>>, <<>>, <<>>, <<"tp1">>)
DocUnknown == Doc("Unknown", <<"x1">>, <<>>, <<>>, <<>>, <<>>, <<>>, <<>>)
DocEmpty == Doc("", <<>>, <<>>, <<>>, <<>>, <<>>, <<>>, <<>>)
\* createSampleArtifacts: the sample trading partner TP-1001
DocSamplePartner ==
  Doc("Partner", <<"TP-1001">>, <<>>, <<>>,
      << [type |-> <<"DUNS">>, value |-> <<"12345678">>],
         [type |-> <<"AS2">>, value |-> <<"SAMPLE_AS2_ID">>] >>,
      << [id |-> <<"EP-2001">>, text |-> NULL],
         [id |-> <<"EP-2002">>, text |-> NULL] >>,
      <<>>, <<>>)

Item(id, type, data) == [id |-> id, type |-> type, data |-> data]

\* What one run of the extractor can return: an endpoint and a partner
\* that refers to it and to a second endpoint; that partner and the second
\* endpoint, which refers back to the partner; a file of an unknown kind
\* and a REST partner (declared trading_partner, no Partner element); an
\* empty object and the sample trading partner.
ExtractResults ==
  { << Item("ep1", "endpoint", DocEndpoint1),
       Item("tp1", "trading_partner", DocPartner1) >>,
    << Item("tp1", "trading_partner", DocPartner1),
       Item("ep2", "endpoint", DocEndpoint2) >>,
    << Item("x1.xml", "other", DocUnknown),
       Item("tp9", "trading_partner", DocUnknown) >>,
    << Item("empty.xml", "other", DocEmpty),
       Item("TP-1001", "trading_partner", DocSamplePartner) >>,
    << >> }

----------------------------------------------------------------------------
(* XmlToJsonTransformer *)

\* getValue: obj[prop] ? obj[prop][0] : null
getValue(field) == IF Len(field) > 0 THEN field[1] ELSE NULL

determineArtifactType(xmlData) ==
  CASE xmlData.root = "Partner" -> "trading_partner"
    [] xmlData.root = "Channel" -> "channel"
    [] xmlData.root = "Certificate" -> "certificate"
    [] xmlData.root = "Map" -> "map"
    [] xmlData.root = "Endpoint" -> "endpoint"
    [] xmlData.root = "Schema" -> "schema"
    [] OTHER -> "other"

transformIdentifiers(identifiersData) ==
  [i \in 1..Len(identifiersData) |->
     [type |-> IF getValue(identifiersData[i].type) = NULL
               THEN "custom" ELSE getValue(identifiersData[i].type),
      value |-> IF getValue(identifiersData[i].value) = NULL
                THEN "" ELSE getValue(identifiersData[i].value)]]

transformEndpointRefs(endpointsData) ==
  [i \in 1..Len(endpointsData) |->
     IF getValue(endpointsData[i].id) # NULL
     THEN getValue(endpointsData[i].id) ELSE endpointsData[i].text]

\* The canonical record: envelope is the single top-level key of the result.
Canon(envelope, id, identifiers, endpoints, channelId, partnerId, modified) ==
  [envelope |-> envelope, id |-> id, identifiers |-> identifiers,
   endpoints |-> endpoints, channelId |-> channelId, partnerId |-> partnerId,
   modified |-> modified]

transformTradingPartner(xmlData, now) ==
  Canon("partner", getValue(xmlData.id), transformIdentifiers(xmlData.Identifiers),
        transformEndpointRefs(xmlData.Endpoints), NULL, NULL, now)

transformEndpoint(xmlData, now) ==
  Canon("endpoint", getValue(xmlData.id), <<>>, <<>>,
        getValue(xmlData.channelId), getValue(xmlData.partnerId), now)

\* transformChannel, transformCertificate, transformMap, transformSchema:
\* scalar fields only, under the envelope of the type.
transformScalar(envelope, xmlData, now) ==
  Canon(envelope, getValue(xmlData.id), <<>>, <<>>, NULL, NULL, now)

transformGeneric(xmlData, now) ==
  Canon("genericArtifact",
        IF getValue(xmlData.id) = NULL THEN "" ELSE getValue(xmlData.id),
        <<>>, <<>>, NULL, NULL, now)

\* transformGeneric throws 'Invalid data structure' on an object without keys
TransformThrows(originalData) ==
  determineArtifactType(originalData) = "other" /\ originalData.root = ""

\* transform(originalData), evaluated when new Date() reads `now`
Transform(originalData, now) ==
  CASE determineArtifactType(originalData) = "trading_partner" ->
         transformTradingPartner(originalData, now)
    [] determineArtifactType(originalData) = "endpoint" ->
         transformEndpoint(originalData, now)
    [] determineArtifactType(originalData) = "channel" ->
         transformScalar("channel", originalData, now)
    [] determineArtifactType(originalData) = "certificate" ->
         transformScalar("certificate", originalData, now)
    [] determineArtifactType(originalData) = "map" ->
         transformScalar("map", originalData, now)
    [] determineArtifactType(originalData) = "schema" ->
         transformScalar("schema", originalData, now)
    [] OTHER -> transformGeneric(originalData, now)

----------------------------------------------------------------------------
(* ApmLoader *)

\* A loader with a further case that pushes any other type as a
\* genericArtifact.
EnvelopeOfWithGeneric(artifactType) ==
  CASE artifactType = "trading_partner" -> "partner"
    [] artifactType = "channel" -> "channel"
    [] artifactType = "certificate" -> "certificate"
    [] artifactType = "map" -> "map"
    [] artifactType = "endpoint" -> "endpoint"
    [] artifactType = "schema" -> "schema"
    [] OTHER -> "genericArtifact"

\* The key each create<Type> requires in the canonical record; "" when
\* load() has no case for the type ('Unsupported artifact type').
EnvelopeOf(artifactType) ==
  CASE artifactType = "trading_partner" -> "partner"
    [] artifactType = "channel" -> "channel"
    [] artifactType = "certificate" -> "certificate"
    [] artifactType = "map" -> "map"
    [] artifactType = "endpoint" -> "endpoint"
    [] artifactType = "schema" -> "schema"
    [] OTHER -> ""

\* load() after getApmToken returned: "" when the push fetch is issued,
\* otherwise the error thrown before any push.
LoadDispatchError(transformedData, artifactType) ==
  IF EnvelopeOf(artifactType) = "" THEN "unsupported_type"
  ELSE IF transformedData[1].envelope # EnvelopeOf(artifactType)
       THEN "invalid_format" ELSE ""

\* Bodies response.json() can return for a 2xx push: an object carrying an
\* id, an object without one, and the JSON value null.
ApmResponse(isNull, id) == [isNull |-> isNull, id |-> id]
ApmResponses ==
  {ApmResponse(FALSE, r) : r \in RemoteIds}
    \cup {ApmResponse(FALSE, NULL), ApmResponse(TRUE, NULL)}

----------------------------------------------------------------------------
(* MemStorage *)

Artifact(originalId, type, originalData, extractionId) ==
  [originalId |-> originalId, type |-> type, status |-> "new",
   originalData |-> originalData, transformedData |-> None, apmId |-> NULL,
   extractionId |-> extractionId]

createArtifact(arts, item, extractionId) ==
  Append(arts, Artifact(item.id, item.type, item.data, extractionId))

\* { ...artifact, ...updates }: every key of updates replaces the stored one
\* (lastModified is not modelled).
updateArtifact(arts, id, updates) ==
  [arts EXCEPT ![id] =
     [f \in DOMAIN @ |-> IF f \in DOMAIN updates THEN updates[f] ELSE @[f]]]

\* A selection that ignores the status and returns every artifact.
getArtifactsAnyStatus(arts, status) == [i \in 1..Len(arts) |-> i]

getArtifactsByStatus(arts, status) ==
  SelectSeq([i \in 1..Len(arts) |-> i], LAMBDA i : arts[i].status = status)

Migration(artifactId, status, apmResponse, errorMessage) ==
  [artifactId |-> artifactId, status |-> status,
   apmResponse |-> apmResponse, errorMessage |-> errorMessage]

\* A ledger whose counter is not advanced: every record is stored under
\* the first id and replaces the one before it.
createMigrationSameId(migs, migration) ==
  << [f \in DOMAIN migration \cup {"id"} |->
        IF f = "id" THEN 1 ELSE migration[f]] >>

\* const id = this.migrationId++; { ...insertMigration, id }.  migrationId
\* starts at 1 and no record is ever removed, so it is Len(migs) + 1.
createMigration(migs, migration) ==
  Append(migs, [f \in DOMAIN migration \cup {"id"} |->
                  IF f = "id" THEN Len(migs) + 1 ELSE migration[f]])

getMigrationsByArtifactId(migs, artifactId) ==
  SelectSeq(migs, LAMBDA m : m.artifactId = artifactId)

createExtraction(exts) ==
  Append(exts, [status |-> "in_progress", artifactCount |-> 0])

updateExtraction(exts, id, updates) ==
  [exts EXCEPT ![id] =
     [f \in DOMAIN @ |-> IF f \in DOMAIN updates THEN updates[f] ELSE @[f]]]

----------------------------------------------------------------------------
(* Initial state: an empty MemStorage, no request in progress *)

NoResponse == [op |-> "none", code |-> 0, results |-> <<>>, count |-> 0, appended |-> 0]

Init ==
  /\ artifacts = <<>>
  /\ extractions = <<>>
  /\ migrations = <<>>
  /\ inflight = <<>>
  /\ response = NoResponse

ArtifactIds == 1..Len(artifacts)

----------------------------------------------------------------------------
(* POST /api/extract *)

\* The handler creates the job and starts the extractor without awaiting it.
StartExtract ==
  /\ Len(extractions) < MaxExtractions
  /\ extractions' = createExtraction(extractions)
  /\ response' = NoResponse
  /\ UNCHANGED <<artifacts, migrations, inflight>>

\* A persistence that stores the first extracted item only.
createArtifactsFirstOnly(arts, items, extractionId) ==
  IF items = <<>> THEN arts
  ELSE createArtifact(arts, Head(items), extractionId)

RECURSIVE createArtifacts(_, _, _)
createArtifacts(arts, items, extractionId) ==
  IF items = <<>> THEN arts
  ELSE createArtifacts(createArtifact(arts, Head(items), extractionId),
                       Tail(items), extractionId)

\* extractor.extract(...).then: persist the items, finalize the job
ExtractResolved(e, items) ==
  /\ extractions[e].status = "in_progress"
  /\ Len(artifacts) + Len(items) <= MaxArtifacts
  /\ artifacts' = createArtifacts(artifacts, items, e)
  /\ extractions' = updateExtraction(extractions, e,
                      [status |-> "completed", artifactCount |-> Len(items)])
  /\ response' = NoResponse
  /\ UNCHANGED <<migrations, inflight>>

\* extractor.extract(...).catch
ExtractRejected(e) ==
  /\ extractions[e].status = "in_progress"
  /\ extractions' = updateExtraction(extractions, e, [status |-> "failed"])
  /\ response' = NoResponse
  /\ UNCHANGED <<artifacts, migrations, inflight>>

----------------------------------------------------------------------------
(* PATCH /api/artifacts/:id *)

\* Bodies accepted by insertArtifactSchema.partial() that the model sends:
\* the reject of the diff viewer, the reset of the status alone by which
\* an operator sends an artifact through the pipeline again, and the
\* status alone set to pending, by which an operator queues an artifact
\* for the next batch.
RejectUpdate == [status |-> "new", transformedData |-> None]
ResetUpdate == [status |-> "new"]
QueueUpdate == [status |-> "pending"]
PatchUpdates == {RejectUpdate, ResetUpdate, QueueUpdate}

PatchArtifact(id, updates) ==
  /\ artifacts' = updateArtifact(artifacts, id, updates)
  /\ response' = NoResponse
  /\ UNCHANGED <<extractions, migrations, inflight>>

----------------------------------------------------------------------------
(* POST /api/transform/:id and POST /api/transform *)

Response(op, code, results, count, appended) ==
  [op |-> op, code |-> code, results |-> results, count |-> count,
   appended |-> appended]

\* A throwing transform reaches the handler's outer catch: 500, no update.
TransformOne(id, now) ==
  /\ IF TransformThrows(artifacts[id].originalData)
     THEN /\ artifacts' = artifacts
          /\ response' = Response("transformOne", 500, <<>>, 0, 0)
     ELSE /\ artifacts' = updateArtifact(artifacts, id,
               [transformedData |-> Some(Transform(artifacts[id].originalData, now)),
                status |-> "pending"])
          /\ response' = Response("transformOne", 200, <<>>, 0, 0)
  /\ UNCHANGED <<extractions, migrations, inflight>>

\* A batch that stops at the first artifact whose transformation throws.
RECURSIVE transformEachUntilFailure(_, _, _)
transformEachUntilFailure(arts, ids, now) ==
  IF ids = <<>> THEN arts
  ELSE IF TransformThrows(arts[Head(ids)].originalData)
       THEN updateArtifact(arts, Head(ids), [status |-> "error"])
       ELSE transformEachUntilFailure(
              updateArtifact(arts, Head(ids),
                [transformedData |-> Some(Transform(arts[Head(ids)].originalData, now)),
                 status |-> "pending"]),
              Tail(ids), now)

RECURSIVE transformEach(_, _, _)
transformEach(arts, ids, now) ==
  IF ids = <<>> THEN arts
  ELSE transformEach(
         IF TransformThrows(arts[Head(ids)].originalData)
         THEN updateArtifact(arts, Head(ids), [status |-> "error"])
         ELSE updateArtifact(arts, Head(ids),
                [transformedData |-> Some(Transform(arts[Head(ids)].originalData, now)),
                 status |-> "pending"]),
         Tail(ids), now)

TransformAll(now) ==
  /\ artifacts' = transformEach(artifacts, getArtifactsByStatus(artifacts, "new"), now)
  /\ response' = Response("transformAll", 200, <<>>,
                          Len(getArtifactsByStatus(artifacts, "new")), 0)
  /\ UNCHANGED <<extractions, migrations, inflight>>

----------------------------------------------------------------------------
(* POST /api/migrate/:id and POST /api/migrate *)

\* One async callback of a migrate handler: what it uses of the artifact
\* object it read (id, type, transformedData) and where it is suspended:
\* "auth" in getApmToken's fetch, "push" in create<Type>'s fetch; "done"
\* once it returned, with its result.
Task(arts, id) ==
  [art |-> id, type |-> arts[id].type,
   transformedData |-> arts[id].transformedData,
   pc |-> "auth", success |-> FALSE, error |-> ""]

Done(task, success, error) ==
  [task EXCEPT !.pc = "done", !.success = success, !.error = error]

\* A suspended request: base is the length of the ledger when it began.
Request(kind, base, tasks) == [kind |-> kind, base |-> base, tasks |-> tasks]

Store(arts, migs) == [arts |-> arts, migs |-> migs]

\* catch branch: a failed migration record, then status error
recordFailure(st, id, errorMessage) ==
  Store(updateArtifact(st.arts, id, [status |-> "error"]),
        createMigration(st.migs, Migration(id, "failed", None, errorMessage)))

\* try branch after load() returned apmResponse: a success record, then
\* status migrated with apmId: apmResponse.id.  Reading .id of null throws
\* inside the try, so the catch branch runs after the success record.
recordSuccess(st, id, apmResponse) ==
  IF apmResponse.isNull
  THEN recordFailure(
         Store(st.arts, createMigration(st.migs,
                 Migration(id, "success", Some(apmResponse), NULL))),
         id, "type_error")
  ELSE Store(updateArtifact(st.arts, id,
               [status |-> "migrated", apmId |-> apmResponse.id]),
             createMigration(st.migs,
               Migration(id, "success", Some(apmResponse), NULL)))

Result(task) == [artifactId |-> task.art, success |-> task.success, error |-> task.error]

Results(tasks) == [i \in 1..Len(tasks) |-> Result(tasks[i])]

AllDone(tasks) == \A i \in 1..Len(tasks) : tasks[i].pc = "done"

\* tasks of suspended requests that will still append a migration record
OpenTasks ==
  {p \in (1..Len(inflight)) \X (1..MaxArtifacts) :
     /\ p[2] <= Len(inflight[p[1]].tasks)
     /\ inflight[p[1]].tasks[p[2]].pc # "done"}

RemoveAt(seq, i) == SubSeq(seq, 1, i - 1) \o SubSeq(seq, i + 1, Len(seq))

\* res.json / res.status(500).json of a finished request
MigrateResponse(request, migs) ==
  IF request.kind = "one"
  THEN Response("migrateOne", IF request.tasks[1].success THEN 200 ELSE 500,
                Results(request.tasks), 0, Len(migs) - request.base)
  ELSE Response("migrateAll", 200, Results(request.tasks), 0,
                Len(migs) - request.base)

\* 400: 'Artifact must be transformed before migration'
MigrateOneUntransformed(id) ==
  /\ artifacts[id].transformedData = None
  /\ response' = Response("migrateOne", 400, <<>>, 0, 0)
  /\ UNCHANGED <<artifacts, extractions, migrations, inflight>>

\* loader.load is called: the handler suspends in the authentication fetch
MigrateOneStart(id) ==
  /\ artifacts[id].transformedData # None
  /\ Len(inflight) < MaxInFlight
  /\ Len(migrations) + Cardinality(OpenTasks) + 1 <= MaxMigrations
  /\ inflight' = Append(inflight,
                   Request("one", Len(migrations), <<Task(artifacts, id)>>))
  /\ response' = NoResponse
  /\ UNCHANGED <<artifacts, extractions, migrations>>

\* pendingArtifacts.map(async ...): each callback runs up to its first
\* fetch; one whose artifact has no transformedData throws 'Missing
\* transformed data' and records its failure at once.
RECURSIVE startEach(_, _, _)
startEach(st, ids, tasks) ==
  IF ids = <<>> THEN [st |-> st, tasks |-> tasks]
  ELSE IF st.arts[Head(ids)].transformedData = None
       THEN startEach(recordFailure(st, Head(ids), "missing_transformed_data"),
                      Tail(ids),
                      Append(tasks, Done(Task(st.arts, Head(ids)), FALSE,
                                         "missing_transformed_data")))
       ELSE startEach(st, Tail(ids), Append(tasks, Task(st.arts, Head(ids))))

MigrateAll ==
  LET pendingArtifacts == getArtifactsByStatus(artifacts, "pending")
      started == startEach(Store(artifacts, migrations), pendingArtifacts, <<>>)
      request == Request("all", Len(migrations), started.tasks)
  IN /\ Len(migrations) + Cardinality(OpenTasks) + Len(pendingArtifacts)
          <= MaxMigrations
     /\ artifacts' = started.st.arts
     /\ migrations' = started.st.migs
     /\ IF AllDone(started.tasks)
        THEN /\ inflight' = inflight
             /\ response' = MigrateResponse(request, started.st.migs)
        ELSE /\ Len(inflight) < MaxInFlight
             /\ inflight' = Append(inflight, request)
             /\ response' = NoResponse
     /\ UNCHANGED extractions

\* Task t of request r returns: the ledger is written, and the request
\* answers once every one of its tasks has returned.
Finish(r, t, st, success, error) ==
  LET request == [inflight[r] EXCEPT !.tasks[t] = Done(@, success, error)]
  IN /\ artifacts' = st.arts
     /\ migrations' = st.migs
     /\ IF AllDone(request.tasks)
        THEN /\ inflight' = RemoveAt(inflight, r)
             /\ response' = MigrateResponse(request, st.migs)
        ELSE /\ inflight' = [inflight EXCEPT ![r] = request]
             /\ response' = NoResponse
     /\ UNCHANGED extractions

\* getApmToken's fetch returns.  ok: load() dispatches on the type and
\* create<Type> checks the envelope, then issues the push fetch.
AuthReturn(r, t, ok) ==
  LET task == inflight[r].tasks[t]
      dispatchError == LoadDispatchError(task.transformedData, task.type)
  IN /\ task.pc = "auth"
     /\ IF ok /\ dispatchError = ""
        THEN /\ inflight' = [inflight EXCEPT ![r].tasks[t].pc = "push"]
             /\ response' = NoResponse
             /\ UNCHANGED <<artifacts, extractions, migrations>>
        ELSE Finish(r, t,
               recordFailure(Store(artifacts, migrations), task.art,
                             IF ok THEN dispatchError ELSE "auth"),
               FALSE, IF ok THEN dispatchError ELSE "auth")

\* The push fetch fails or returns a non-2xx status.
PushRejected(r, t) ==
  LET task == inflight[r].tasks[t]
  IN /\ task.pc = "push"
     /\ Finish(r, t,
          recordFailure(Store(artifacts, migrations), task.art, "rejected"),
          FALSE, "rejected")

\* The push fetch returns 2xx with body apmResponse.
PushAccepted(r, t, apmResponse) ==
  LET task == inflight[r].tasks[t]
  IN /\ task.pc = "push"
     /\ apmResponse.isNull =>
          Len(migrations) + Cardinality(OpenTasks) + 1 <= MaxMigrations
     /\ Finish(r, t,
          recordSuccess(Store(artifacts, migrations), task.art, apmResponse),
          ~apmResponse.isNull,
          IF apmResponse.isNull THEN "type_error" ELSE "")

----------------------------------------------------------------------------
(* Specifications *)

TaskIndexes == {p \in (1..Len(inflight)) \X (1..MaxArtifacts) :
                  p[2] <= Len(inflight[p[1]].tasks)}

\* a step in which a client sends a request
Call ==
  \/ StartExtract
  \/ \E id \in ArtifactIds, updates \in PatchUpdates : PatchArtifact(id, updates)
  \/ \E id \in ArtifactIds, now \in Times : TransformOne(id, now)
  \/ \E now \in Times : TransformAll(now)
  \/ \E id \in ArtifactIds : MigrateOneUntransformed(id)
  \/ \E id \in ArtifactIds : MigrateOneStart(id)
  \/ MigrateAll

\* a step in which a suspended handler resumes
Resume ==
  \/ \E e \in 1..Len(extractions), items \in ExtractResults : ExtractResolved(e, items)
  \/ \E e \in 1..Len(extractions) : ExtractRejected(e)
  \/ \E p \in TaskIndexes, ok \in BOOLEAN : AuthReturn(p[1], p[2], ok)
  \/ \E p \in TaskIndexes : PushRejected(p[1], p[2])
  \/ \E p \in TaskIndexes, apmResponse \in ApmResponses :
       PushAccepted(p[1], p[2], apmResponse)

Next == Call \/ Resume

\* Requests arrive at any time, also while others are suspended.
Spec == Init /\ [][Next]_vars

\* no handler is suspended
Quiet ==
  /\ inflight = <<>>
  /\ \A e \in 1..Len(extractions) : extractions[e].status # "in_progress"

NextSeq == (Quiet /\ Call) \/ Resume

\* One request at a time: a client waits for the previous one to finish.
SpecSeq == Init /\ [][NextSeq]_vars

\* the promise of extractor.extract settles: .then or .catch runs
ExtractorReturns ==
  \E e \in 1..Len(extractions) :
    \/ \E items \in ExtractResults : ExtractResolved(e, items)
    \/ ExtractRejected(e)

\* One request at a time, and the extractor eventually returns or fails.
SpecLive == SpecSeq /\ WF_vars(ExtractorReturns)

----------------------------------------------------------------------------
(* Notions of the specification used to state the claims *)

\* The ids a canonical record refers to: a partner's endpoint list, an
\* endpoint's channel and partner.
References(canonical) ==
  CASE canonical.envelope = "partner" ->
         {canonical.endpoints[i] : i \in 1..Len(canonical.endpoints)}
    [] canonical.envelope = "endpoint" ->
         {canonical.channelId, canonical.partnerId} \ {NULL}
    [] OTHER -> {}

BatchRequests == {r \in 1..Len(inflight) : inflight[r].kind = "all"}

Members(r) == 1..Len(inflight[r].tasks)

\* member i of batch r refers to member j
RefersTo(r, i, j) ==
  /\ inflight[r].tasks[i].transformedData # None
  /\ artifacts[inflight[r].tasks[j].art].originalId
       \in References(inflight[r].tasks[i].transformedData[1])

\* member i reaches member j along at least one and at most n references
RECURSIVE Reaches(_, _, _, _)
Reaches(r, i, j, n) ==
  /\ n > 0
  /\ \/ RefersTo(r, i, j)
     \/ \E k \in Members(r) : RefersTo(r, i, k) /\ Reaches(r, k, j, n - 1)

OnCycle(r, i) == Reaches(r, i, i, Len(inflight[r].tasks))

Acyclic(r) == \A i \in Members(r) : ~OnCycle(r, i)

\* member i refers to an id that no member of the batch carries and no
\* migrated artifact carries
Unresolved(r, i) ==
  /\ inflight[r].tasks[i].transformedData # None
  /\ \E ref \in References(inflight[r].tasks[i].transformedData[1]) :
       /\ \A j \in Members(r) :
            artifacts[inflight[r].tasks[j].art].originalId # ref
       /\ \A a \in ArtifactIds :
            artifacts[a].originalId = ref => artifacts[a].status # "migrated"

\* the push fetch of a task was issued / has returned
PushErrors == {"", "rejected", "type_error"}
PushIssued(task) ==
  task.pc = "push" \/ (task.pc = "done" /\ task.error \in PushErrors)
PushCompleted(task) == task.pc = "done" /\ task.error \in PushErrors

\* the latest migration record of an artifact, as a sequence of length 0 or 1
LatestAttempt(a) ==
  LET mine == getMigrationsByArtifactId(migrations, a)
  IN IF mine = <<>> THEN <<>> ELSE <<mine[Len(mine)]>>

----------------------------------------------------------------------------
(* Claims *)

\* C1: a migration request starts network activity (authentication, push)
\* for an artifact only when the artifact's status is pending.  Stated for
\* the artifacts a migration has already handled: a request for an artifact
\* whose status is migrated or error starts no network call (status new is
\* C8).
C1_MigrateOnlyWhenPending ==
  [][\A id \in ArtifactIds :
       MigrateOneStart(id) => artifacts[id].status \notin {"migrated", "error"}]_vars

\* C2: in a batch whose reference graph is acyclic, when member A refers to
\* member B, the push of A is issued only after the push of B has completed.
C2_DependencyPushedFirst ==
  \A r \in BatchRequests : \A i \in Members(r), j \in Members(r) :
    (Acyclic(r) /\ RefersTo(r, i, j) /\ PushIssued(inflight[r].tasks[i]))
      => PushCompleted(inflight[r].tasks[j])

\* C3: no push is ever issued for a member of a reference cycle of a batch.
C3_CycleNeverPushed ==
  \A r \in BatchRequests : \A i \in Members(r) :
    OnCycle(r, i) => ~PushIssued(inflight[r].tasks[i])

\* C4: no push is issued for a batch member that refers to an artifact
\* neither in the batch nor already migrated.
C4_UnresolvedNeverPushed ==
  \A r \in BatchRequests : \A i \in Members(r) :
    Unresolved(r, i) => ~PushIssued(inflight[r].tasks[i])

\* C5: a finished migrateAll answers with one result per batch member, has
\* appended exactly one migration record per member, and leaves every
\* succeeded member migrated and every failed member in error.
C5_BatchAccounting ==
  response.op = "migrateAll" =>
    /\ response.code = 200
    /\ response.appended = Len(response.results)
    /\ \A i \in 1..Len(response.results) :
         artifacts[response.results[i].artifactId].status =
           IF response.results[i].success THEN "migrated" ELSE "error"

\* C6: the pushes of one batch share a single authentication call: at no
\* time are two authentication calls of the same batch outstanding.
C6_TokenSingleFlight ==
  \A r \in BatchRequests :
    Cardinality({i \in Members(r) : inflight[r].tasks[i].pc = "auth"}) <= 1

\* C7: transformation is deterministic: canonical records produced from
\* identical source documents are identical, whenever they were produced.
C7_TransformDeterministic ==
  \A a \in ArtifactIds, b \in ArtifactIds :
    ( /\ artifacts[a].originalData = artifacts[b].originalData
      /\ artifacts[a].transformedData # None
      /\ artifacts[b].transformedData # None )
      => artifacts[a].transformedData = artifacts[b].transformedData

\* C8: migrateOne on an artifact whose status is new is rejected: it starts
\* no migration, the status stays new and no migration record is appended.
C8_MigrateOneOnNewRejected ==
  [][\A id \in ArtifactIds :
       artifacts[id].status = "new" =>
         /\ ~MigrateOneStart(id)
         /\ MigrateOneUntransformed(id) =>
              (artifacts'[id].status = "new" /\ migrations' = migrations)]_vars

\* C9: an artifact has a remoteId (apmId) only when its latest migration
\* record has status success: a failed attempt recorded after an earlier
\* success leaves remoteId unset.
C9_RemoteIdOnlyIfLatestSuccess ==
  \A a \in ArtifactIds :
    artifacts[a].apmId # NULL
      => (LatestAttempt(a) # <<>> /\ LatestAttempt(a)[1].status = "success")

\* C10: an artifact whose status is migrated has a remoteId (apmId).
C10_MigratedHasRemoteId ==
  \A a \in ArtifactIds :
    artifacts[a].status = "migrated" => artifacts[a].apmId # NULL

----------------------------------------------------------------------------
(* Claims C11..C20 *)

\* C11: once the authentication of one member of a batch has failed, no
\* push is issued for a member that had not yet been attempted, and that
\* member's artifact keeps status pending.
C11_AuthFailureCancelsBatch ==
  [][\A r \in BatchRequests : \A t \in Members(r) :
       (/\ \E u \in Members(r) : /\ inflight[r].tasks[u].pc = "done"
                                  /\ inflight[r].tasks[u].error = "auth"
        /\ inflight[r].tasks[t].pc = "auth")
         => /\ artifacts'[inflight[r].tasks[t].art].status = "pending"
            /\ r \in DOMAIN inflight' => inflight'[r].tasks[t].pc # "push"]_vars

\* C12: a migrateOne request for an artifact whose status is migrated is a
\* no-op: it starts no network call.
C12_MigratedIsNoOp ==
  [][\A id \in ArtifactIds :
       artifacts[id].status = "migrated" => ~MigrateOneStart(id)]_vars

\* C13: the ledger is append-only: every step keeps every existing
\* migration record as it was, under the same id, and a record it adds
\* has an id that no existing record has.
C13_LedgerAppendOnly ==
  [][/\ Len(migrations') >= Len(migrations)
     /\ \A i \in 1..Len(migrations) : migrations'[i] = migrations[i]
     /\ \A i \in 1..Len(migrations') : \A j \in 1..Len(migrations') :
          migrations'[i].id = migrations'[j].id => i = j]_vars

\* C13 witness: a success record is kept while a later attempt on the same
\* artifact appended a failed one.
C13_Witness ==
  /\ Len(migrations) = 2
  /\ migrations[1].status = "success"
  /\ migrations[2].status = "failed"
  /\ migrations[1].artifactId = migrations[2].artifactId

\* the status changes the lifecycle of the specification allows
LifecycleTransitions ==
  { <<"new", "pending">>, <<"new", "error">>, <<"pending", "migrated">>,
    <<"pending", "error">>, <<"error", "new">>, <<"migrated", "new">> }

\* C14: every change of an artifact's status is a lifecycle transition.
C14_OnlyLifecycleTransitions ==
  [][\A id \in ArtifactIds :
       artifacts'[id].status # artifacts[id].status
         => <<artifacts[id].status, artifacts'[id].status>>
              \in LifecycleTransitions]_vars

\* C15: a migration request for an artifact without transformedData starts
\* no network call, appends no migration record for it and leaves its
\* status unchanged, for migrateOne and for a member of a migrateAll batch.
C15_UntransformedRejected ==
  [][\A id \in ArtifactIds :
       artifacts[id].transformedData = None
         => /\ ~MigrateOneStart(id)
            /\ (MigrateOneUntransformed(id) \/ MigrateAll)
                 => /\ artifacts'[id].status = artifacts[id].status
                    /\ getMigrationsByArtifactId(migrations', id)
                         = getMigrationsByArtifactId(migrations, id)]_vars

\* a trading partner document that carries two identifiers and two
\* endpoint references
CarriesTwoAndTwo(xmlData) ==
  /\ xmlData.root = "Partner"
  /\ Len(xmlData.Identifiers) + Len(xmlData.identifiers) = 2
  /\ Len(xmlData.Endpoints) + Len(xmlData.endpoints) = 2

\* C16: transforming a trading partner document with two identifiers and
\* two endpoint references gives a canonical record with two identifiers
\* and two references, and the artifact becomes pending.
C16_PartnerTwoAndTwo ==
  [][\A id \in ArtifactIds, now \in Times :
       (TransformOne(id, now) /\ CarriesTwoAndTwo(artifacts[id].originalData))
         => /\ artifacts'[id].status = "pending"
            /\ artifacts'[id].transformedData # None
            /\ Len(artifacts'[id].transformedData[1].identifiers) = 2
            /\ Len(artifacts'[id].transformedData[1].endpoints) = 2]_vars

\* C17: once the push of a batch member has failed, no push is issued for
\* a member that refers to it.
C17_DependentShortCircuited ==
  [][\A r \in BatchRequests : \A i \in Members(r), j \in Members(r) :
       (/\ RefersTo(r, i, j)
        /\ inflight[r].tasks[j].pc = "done"
        /\ inflight[r].tasks[j].error = "rejected"
        /\ inflight[r].tasks[i].pc = "auth"
        /\ r \in DOMAIN inflight')
         => inflight'[r].tasks[i].pc # "push"]_vars

\* C18: when the transformation of an artifact throws, the artifact's
\* status becomes error, through transformOne and through transformAll.
C18_TransformFailureSetsError ==
  [][\A id \in ArtifactIds, now \in Times :
       TransformThrows(artifacts[id].originalData)
         => /\ TransformOne(id, now) => artifacts'[id].status = "error"
            /\ (TransformAll(now) /\ artifacts[id].status = "new")
                 => artifacts'[id].status = "error"]_vars

\* the artifact a transformAll call at time now makes of artifact id
TransformOutcome(id, now) ==
  IF TransformThrows(artifacts[id].originalData)
  THEN [artifacts[id] EXCEPT !.status = "error"]
  ELSE [artifacts[id] EXCEPT
          !.transformedData = Some(Transform(artifacts[id].originalData, now)),
          !.status = "pending"]

\* the step in which task t of request r returns
TaskReturns(r, t) ==
  \/ AuthReturn(r, t, FALSE)
  \/ AuthReturn(r, t, TRUE) /\ inflight[r].tasks[t].pc = "auth"
       /\ LoadDispatchError(inflight[r].tasks[t].transformedData,
                            inflight[r].tasks[t].type) # ""
  \/ PushRejected(r, t)
  \/ \E apmResponse \in ApmResponses : PushAccepted(r, t, apmResponse)

\* C19: a failure never aborts the siblings of the same call.  A
\* transformAll call gives every new artifact its own outcome, whatever
\* the others do; a migrateAll call selects every pending artifact, the
\* return of one member leaves every other artifact and every other
\* member as it was, and the response carries one result per member, each
\* agreeing with the status of its artifact.
C19_SiblingsUnaffected ==
  [][/\ \A now \in Times :
          TransformAll(now)
            => \A id \in ArtifactIds :
                 artifacts'[id] = IF artifacts[id].status = "new"
                                  THEN TransformOutcome(id, now)
                                  ELSE artifacts[id]
     /\ (MigrateAll /\ Len(inflight') > Len(inflight))
          => \A id \in ArtifactIds :
               artifacts[id].status = "pending"
                 => \E t \in 1..Len(inflight'[Len(inflight')].tasks) :
                      inflight'[Len(inflight')].tasks[t].art = id
     /\ \A r \in BatchRequests : \A t \in Members(r) :
          TaskReturns(r, t)
            => /\ \A id \in ArtifactIds \ {inflight[r].tasks[t].art} :
                    artifacts'[id] = artifacts[id]
               /\ r \in DOMAIN inflight'
                    => \A u \in Members(r) \ {t} :
                         inflight'[r].tasks[u] = inflight[r].tasks[u]
               /\ r \notin DOMAIN inflight'
                    => /\ response'.op = "migrateAll"
                       /\ Len(response'.results) = Len(inflight[r].tasks)
                       /\ \A u \in Members(r) :
                            /\ response'.results[u].artifactId
                                 = inflight[r].tasks[u].art
                            /\ artifacts'[inflight[r].tasks[u].art].status
                                 = IF response'.results[u].success
                                   THEN "migrated" ELSE "error"]_vars

\* C19 witness: one transformAll call left one artifact in error and its
\* sibling pending with a canonical record.
C19_Witness ==
  /\ response.op = "transformAll"
  /\ response.count = 2
  /\ Len(artifacts) = 2
  /\ artifacts[1].status = "error"
  /\ artifacts[2].status = "pending"
  /\ artifacts[2].transformedData # None

\* C20: an operator reject sets the status to new and clears both
\* transformedData and apmId.
C20_RejectClears ==
  [][\A id \in ArtifactIds :
       PatchArtifact(id, RejectUpdate)
         => /\ artifacts'[id].status = "new"
            /\ artifacts'[id].transformedData = None
            /\ artifacts'[id].apmId = NULL]_vars

----------------------------------------------------------------------------
(* Claims C21..C30 *)

\* C21: the canonical record of an artifact has the envelope of the
\* artifact's declared type, for every type the loader has a push for.
C21_EnvelopeOfDeclaredType ==
  \A a \in ArtifactIds :
    (artifacts[a].transformedData # None /\ EnvelopeOf(artifacts[a].type) # "")
      => artifacts[a].transformedData[1].envelope = EnvelopeOf(artifacts[a].type)

\* C22: the return of a migration worker appends exactly one migration
\* record, for its own artifact, and changes no other artifact.
C22_OneAttemptPerAttempted ==
  [][\A r \in 1..Len(inflight) : \A t \in Members(r) :
       TaskReturns(r, t)
         => /\ Len(migrations') = Len(migrations) + 1
            /\ migrations'[Len(migrations')].artifactId = inflight[r].tasks[t].art
            /\ \A id \in ArtifactIds \ {inflight[r].tasks[t].art} :
                 artifacts'[id] = artifacts[id]]_vars

\* C23: there are never two pushes in flight for the same artifact.
C23_OneWorkerPerArtifact ==
  \A p \in TaskIndexes, q \in TaskIndexes :
    (/\ p # q
     /\ inflight[p[1]].tasks[p[2]].pc = "push"
     /\ inflight[q[1]].tasks[q[2]].pc = "push")
      => inflight[p[1]].tasks[p[2]].art # inflight[q[1]].tasks[q[2]].art

\* the artifacts persisted with the id of extraction job e
ArtifactsOf(e) == {a \in ArtifactIds : artifacts[a].extractionId = e}

Finalized(e) == extractions[e].status \in {"completed", "failed"}

\* C24: an extraction job is created in_progress; once completed or
\* failed it never changes; a completed job's artifactCount is the number
\* of artifacts persisted with its id, each created with status new, and
\* a failed job owns none; and, the extractor returning or failing, every
\* job is eventually completed or failed.
C24_ExtractionLifecycle ==
  /\ [](\A e \in 1..Len(extractions) :
          /\ extractions[e].status \in {"in_progress", "completed", "failed"}
          /\ extractions[e].status = "completed"
               => extractions[e].artifactCount = Cardinality(ArtifactsOf(e))
          /\ extractions[e].status # "completed" => ArtifactsOf(e) = {})
  /\ [][/\ \A e \in 1..Len(extractions) :
             Finalized(e) => extractions'[e] = extractions[e]
        /\ \A e \in (Len(extractions) + 1)..Len(extractions') :
             extractions'[e].status = "in_progress"
        /\ \A a \in (Len(artifacts) + 1)..Len(artifacts') :
             artifacts'[a].status = "new"]_vars
  /\ \A e \in 1..MaxExtractions :
       (Len(extractions) >= e /\ extractions[e].status = "in_progress")
         ~> (Len(extractions) >= e /\ Finalized(e))

\* C24 witness: a completed job that owns its two artifacts, one of which
\* has since moved on from status new.
C24_Witness ==
  /\ Len(extractions) = 1
  /\ extractions[1].status = "completed"
  /\ extractions[1].artifactCount = 2
  /\ Cardinality(ArtifactsOf(1)) = 2
  /\ \E a \in ArtifactsOf(1) : artifacts[a].status # "new"

\* C25: the number a transformAll call reports as transformed is the
\* number of artifacts the call moved to pending.
C25_ReportedCountIsSucceeded ==
  [][\A now \in Times :
       TransformAll(now)
         => response'.count
              = Cardinality({id \in ArtifactIds :
                               /\ artifacts[id].status = "new"
                               /\ artifacts'[id].status = "pending"})]_vars

\* C26: an artifact that has an apmId has status migrated.
C26_RemoteIdOnlyWhenMigrated ==
  \A a \in ArtifactIds :
    artifacts[a].apmId # NULL => artifacts[a].status = "migrated"

\* C27: an artifact whose status is migrated has transformedData.
C27_MigratedHasTransformedData ==
  \A a \in ArtifactIds :
    artifacts[a].status = "migrated" => artifacts[a].transformedData # None

\* C28: an artifact of declared type other never reaches status migrated
\* through a migration: no push is issued for it, and the return of its
\* migration worker appends one failed record and sets its status to
\* error.
C28_OtherNeverMigrated ==
  /\ [](/\ \A a \in ArtifactIds :
            artifacts[a].type = "other" => artifacts[a].status # "migrated"
        /\ \A p \in TaskIndexes :
            inflight[p[1]].tasks[p[2]].type = "other"
              => ~PushIssued(inflight[p[1]].tasks[p[2]]))
  /\ [][\A r \in 1..Len(inflight) : \A t \in Members(r) :
          (TaskReturns(r, t) /\ inflight[r].tasks[t].type = "other")
            => /\ artifacts'[inflight[r].tasks[t].art].status = "error"
               /\ Len(migrations') = Len(migrations) + 1
               /\ migrations'[Len(migrations')].status = "failed"
               /\ migrations'[Len(migrations')].artifactId
                    = inflight[r].tasks[t].art]_vars

\* C28 witness: an artifact of type other in status error whose latest
\* migration record is the loader's rejection of the type.
C28_Witness ==
  \E a \in ArtifactIds :
    /\ artifacts[a].type = "other"
    /\ artifacts[a].status = "error"
    /\ LatestAttempt(a) # <<>>
    /\ LatestAttempt(a)[1].status = "failed"
    /\ LatestAttempt(a)[1].errorMessage = "unsupported_type"

\* the records a request appended for artifact a
AppendedFor(request, migs, a) ==
  SelectSeq(SubSeq(migs, request.base + 1, Len(migs)),
            LAMBDA m : m.artifactId = a)

\* C29: when a migrateAll call completes, every artifact it selected has
\* status migrated or error and exactly one new migration record.
C29_BatchCompletes ==
  [][\A r \in BatchRequests : \A t \in Members(r) :
       (TaskReturns(r, t) /\ inflight' = <<>>)
         => \A u \in Members(r) :
              /\ artifacts'[inflight[r].tasks[u].art].status
                   \in {"migrated", "error"}
              /\ Len(AppendedFor(inflight[r], migrations',
                                 inflight[r].tasks[u].art)) = 1]_vars

\* C30: transformAll changes only artifacts whose status is new, and
\* migrateAll selects and changes only artifacts whose status is pending
\* when it reads the ledger; an artifact in any other status, error
\* included, keeps its fields and its migration records.
C30_BatchesSelectByStatus ==
  [][/\ \A now \in Times :
          TransformAll(now)
            => /\ migrations' = migrations
               /\ \A id \in ArtifactIds :
                    artifacts[id].status # "new" => artifacts'[id] = artifacts[id]
     /\ MigrateAll
          => \A id \in ArtifactIds :
               artifacts[id].status # "pending"
                 => /\ artifacts'[id] = artifacts[id]
                    /\ getMigrationsByArtifactId(migrations', id)
                         = getMigrationsByArtifactId(migrations, id)
                    /\ Len(inflight') > Len(inflight)
                         => \A t \in 1..Len(inflight'[Len(inflight')].tasks) :
                              inflight'[Len(inflight')].tasks[t].art # id
                    /\ response'.op = "migrateAll"
                         => \A i \in 1..Len(response'.results) :
                              response'.results[i].artifactId # id]_vars

\* C30 witness: a migrateAll call has completed for the pending artifact
\* while the artifact in status error kept its fields and has no record.
C30_Witness ==
  /\ response.op = "migrateAll"
  /\ Len(response.results) = 1
  /\ Len(artifacts) = 2
  /\ artifacts[1].status = "error"
  /\ artifacts[1].transformedData = None
  /\ getMigrationsByArtifactId(migrations, 1) = <<>>
  /\ response.results[1].artifactId = 2

====
